---------------------------- MODULE Spec2Model ----------------------------
(***************************************************************************)
(* The client subsystem of named (bin/named/client.c): the per-request     *)
(* client state machine, the client manager, and the reactor events that   *)
(* drive them.  Every ns_client_t is a record; the reactor's view of a     *)
(* client (pending accepts, reads, sends in flight, the posted shutdown    *)
(* event, the timer) is kept in the same record.  A failed REQUIRE or      *)
(* INSIST sets the record's fault field and stops the program.             *)
(***************************************************************************)
EXTENDS Integers, Sequences, FiniteSets, TLC

\* ------------------------------------------------------------------ bounds
MaxClients ==
  1

MaxAccepts ==
  2

MaxReads ==
  1

MaxN ==
  2

\* isc_mempool_setmaxalloc(client->sendbufs, 3)
MaxAlloc ==
  3

\* Clients of the run in which only the manager and the lifecycle of its
\* clients are followed.
MaxMgrClients ==
  3

\* ------------------------------------------------------------------ views
\* ns_g_viewlist: the views in list order, each with its rdclass.
ViewList ==
  << [id |-> 1, rdclass |-> "HS"],
     [id |-> 2, rdclass |-> "IN"],
     [id |-> 3, rdclass |-> "IN"] >>

RECURSIVE LastMatch(_, _)
\* A walk that does not stop at the first match.
LastMatch(views, rdclass) ==
  IF views = << >> THEN 0
  ELSE LET rest == LastMatch(Tail(views), rdclass)
       IN IF rest # 0 THEN rest
          ELSE IF rdclass = Head(views).rdclass THEN Head(views).id
          ELSE 0

RECURSIVE FirstMatch(_, _)
\* The walk of client_request over the view list: the first view whose
\* rdclass equals the message's, 0 (NULL) when the walk runs off the end.
FirstMatch(views, rdclass) ==
  IF views = << >> THEN 0
  ELSE IF rdclass = Head(views).rdclass THEN Head(views).id
  ELSE FirstMatch(Tail(views), rdclass)

\* ------------------------------------------------------------------ inputs
\* An inbound request event: the transport result, the parse result and the
\* parsed header fields.
Opcodes ==
  {"query", "update", "notify", "iquery", "status"}

Requests ==
  [ result : {"SUCCESS"}, parse : {"SUCCESS"}, qr : {0},
    rdclass : {"IN"}, opcode : Opcodes ]
  \cup
  [ result : {"SUCCESS"}, parse : {"SUCCESS"}, qr : {0},
    rdclass : {"CH"}, opcode : {"query"} ]
  \cup
  [ result : {"SUCCESS"}, parse : {"SUCCESS"}, qr : {1},
    rdclass : {"IN"}, opcode : {"query"} ]
  \cup
  [ result : {"SUCCESS"}, parse : {"FORMERR", "UNEXPECTEDEND"}, qr : {0},
    rdclass : {"IN"}, opcode : {"query"} ]
  \cup
  [ result : {"CANCELED"}, parse : {"SUCCESS"}, qr : {0},
    rdclass : {"IN"}, opcode : {"query"} ]

\* A mapping that has no rcode for a message that does not parse.
FormerrLost(result) ==
  CASE result = "SUCCESS" -> "NOERROR"
    [] result = "REFUSED" -> "REFUSED"
    [] result = "NOTIMP"  -> "NOTIMP"
    [] OTHER              -> "SERVFAIL"

\* A mapping that turns every failure into SERVFAIL.
AlwaysServfail(result) ==
  IF result = "SUCCESS" THEN "NOERROR" ELSE "SERVFAIL"

\* dns_result_torcode
dns_result_torcode(result) ==
  CASE result = "SUCCESS"       -> "NOERROR"
    [] result = "REFUSED"       -> "REFUSED"
    [] result = "NOTIMP"        -> "NOTIMP"
    [] result = "FORMERR"       -> "FORMERR"
    [] result = "UNEXPECTEDEND" -> "FORMERR"
    [] OTHER                    -> "SERVFAIL"

\* ------------------------------------------------------------------ state
VARIABLES clients, mgr, main

vars ==
  << clients, mgr, main >>

Clients ==
  DOMAIN clients

\* A slot no client was created in yet.
NoClient ==
  [ status      |-> "unborn",     \* unborn | live | freed
    pc          |-> "run",        \* position inside client_destroy
    need        |-> FALSE,        \* need_clientmgr_destroy
    fault       |-> "none",
    tcp         |-> FALSE,        \* attributes & NS_CLIENTATTR_TCP
    state       |-> "idle",
    view        |-> 0,
    dispatch    |-> FALSE,
    dispentry   |-> FALSE,
    dispevent   |-> FALSE,
    tcplistener |-> FALSE,
    tcpsocket   |-> FALSE,
    nsends      |-> 0,
    allocated   |-> 0,            \* buffers checked out of sendbufs
    next        |-> FALSE,        \* client->next != NULL
    rcode       |-> "NOERROR",    \* message->rcode
    handler     |-> "none",       \* request handler that has not finalized
    accepted    |-> FALSE,        \* last request event had a successful result
    timer       |-> FALSE,        \* timer armed by the handler at work
    reads       |-> 0,            \* reads registered with the reactor
    accepts     |-> 0,            \* accepts registered with the reactor
    inflight    |-> 0,            \* sends whose completion is to come
    shutdown    |-> FALSE,        \* task shutdown event posted
    linked      |-> FALSE,        \* counted and linked by the manager
    nnext       |-> 0,            \* ns_client_next calls, last event
    ncb         |-> 0,            \* next-callback invocations, last event
    opcode      |-> "none",       \* opcode client_request switched on, last request
    entered     |-> "none",       \* handler client_request entered, last request
    nfinal      |-> 0,            \* finalizing calls client_request made
    sent        |-> << >> ]       \* rcodes of the responses scheduled for it

\* The start of an event handler: what is recorded of the last event is
\* forgotten.
Event(cl) ==
  [cl EXCEPT !.nnext = 0, !.ncb = 0]

Fault(cl, kind) ==
  [cl EXCEPT !.fault = kind]

\* ------------------------------------------------------------------ client
\* A library call made while an event is handled can succeed or fail, so a
\* routine of the client maps a client to the set of clients it can leave.
Bind(S, F(_)) ==
  UNION {F(x) : x \in S}

\* An accept that is not registered and not noticed.
AcceptSkipped(cl) ==
  {cl}

\* client_accept: register an accept on the listener; go idle when the
\* socket layer refuses it.
client_accept(cl) ==
  (IF cl.accepts < MaxAccepts THEN {[cl EXCEPT !.accepts = @ + 1]} ELSE {})
  \cup {[cl EXCEPT !.state = "idle"]}

RECURSIVE ns_client_next(_, _)
RECURSIVE client_read(_)

\* if (client->view != NULL) dns_view_detach(&client->view)
DetachView(cl) ==
  [cl EXCEPT !.view = 0]

\* A callback that is invoked and not cleared.
CallbackKept(cl) ==
  IF cl.next THEN [cl EXCEPT !.ncb = @ + 1] ELSE cl

\* if (client->next != NULL) { (client->next)(client, result);
\* client->next = NULL; }  The callback tells the request handler that its
\* request is over.
NextCallback(cl) ==
  IF cl.next THEN [cl EXCEPT !.next = FALSE, !.ncb = @ + 1] ELSE cl

\* A finalization that goes back to listening and keeps the event.
KeepEvent(cl) ==
  [cl EXCEPT !.state = "listening"]

\* dns_dispatch_freeevent(client->dispatch, client->dispentry,
\* &client->dispevent); client->state = ns_clientstate_listening
FreeEvent(cl) ==
  [cl EXCEPT !.dispevent = FALSE, !.state = "listening"]

\* ns_client_next: finalize the current request.
ns_client_next(cl, result) ==
  IF cl.fault # "none" THEN {cl}
  ELSE IF cl.state \notin {"listening", "working"}
  THEN {Fault(cl, "REQUIRE")}
  ELSE
    LET c0 == [cl EXCEPT !.nnext = @ + 1]
        c1 == NextCallback(c0)
        c2 == [DetachView(c1) EXCEPT !.rcode = "NOERROR", !.handler = "none"]
    IN IF c2.dispevent
       THEN {FreeEvent(c2)}
       ELSE IF c2.tcp
       THEN IF result = "SUCCESS"
            THEN client_read(c2)
            ELSE client_accept([c2 EXCEPT !.tcpsocket = FALSE])
       ELSE {c2}

\* client_read: start reading the next TCP message.
client_read(cl) ==
  IF cl.fault # "none" THEN {cl}
  ELSE
    LET started == IF cl.reads < MaxReads /\ cl.tcpsocket
                   THEN {[cl EXCEPT !.reads = @ + 1]} ELSE {}
        \* without a socket the reader was invalidated: the call fails its
        \* own REQUIRE, or returns a failure
        invalid == IF cl.tcpsocket THEN {} ELSE {Fault(cl, "REQUIRE")}
        failed  == invalid \cup ns_client_next(cl, "FAILURE")
    IN {IF x.fault # "none" THEN x ELSE [x EXCEPT !.state = "reading"] :
          x \in started \cup failed}

\* A pool that hands out buffers without a limit.
UnlimitedGet(cl) ==
  {[cl EXCEPT !.allocated = @ + 1]}

\* isc_mempool_get(client->sendbufs): a buffer, or NULL at the allocation
\* limit and whenever the memory context has nothing left.
mempool_get(cl) ==
  (IF cl.allocated < MaxAlloc THEN {[cl EXCEPT !.allocated = @ + 1]} ELSE {})

\* A put that does not give the buffer back to the pool.
PutNothing(cl) ==
  cl

\* isc_mempool_put(client->sendbufs, data)
mempool_put(cl) ==
  [cl EXCEPT !.allocated = @ - 1]

\* A send that waits whether or not a send is outstanding.
WaitAlways(cl) ==
  IF cl.state = "working"
  THEN {[cl EXCEPT !.state = "waiting"]}
  ELSE {Fault(cl, "INSIST")}

\* ns_client_send when isc_mempool_get returned NULL: wait for a send to
\* complete when one is outstanding, give up otherwise.
NoBuffer(cl) ==
  IF cl.nsends > 0
  THEN IF cl.state = "working"
       THEN {[cl EXCEPT !.state = "waiting"]}
       ELSE {Fault(cl, "INSIST")}
  ELSE ns_client_next(cl, "NOMEMORY")

\* ns_client_send: render the message and schedule the send.
ns_client_send(cl) ==
  IF cl.fault # "none" THEN {cl}
  ELSE
    LET nobuffer == NoBuffer(cl)
        norender(c1) ==
          ns_client_next(mempool_put(c1), "NOSPACE")
        nosend(c1) ==
          ns_client_next(mempool_put(c1), "FAILURE")
        sendto(c1) ==
          IF ~c1.tcp /\ ~c1.dispevent
          THEN {Fault(c1, "SEGV")}
          ELSE IF c1.tcp /\ ~c1.tcpsocket
          THEN {Fault(c1, "REQUIRE")}
          ELSE ns_client_next(
                 [c1 EXCEPT !.nsends = @ + 1, !.inflight = @ + 1,
                            !.sent = Append(@, c1.rcode)],
                 "SUCCESS")
    IN nobuffer
       \cup Bind(mempool_get(cl),
                 LAMBDA c1 : norender(c1) \cup nosend(c1) \cup sendto(c1))

\* ns_client_error: turn a failure into an error response.
ns_client_error(cl, result) ==
  IF cl.fault # "none" THEN {cl}
  ELSE ns_client_next(cl, "FAILURE")
       \cup ns_client_send([cl EXCEPT !.rcode = dns_result_torcode(result)])

\* The finalizing calls client_request makes are counted where it makes
\* them, not where they nest.
Finalizing(cl) ==
  [cl EXCEPT !.nfinal = @ + 1]

\* What a request handler does on entry besides its own work: it may arm
\* the client's timer, to bound its own work, and may set the
\* next-callback.
StartHandler(cl, name) ==
  {[cl EXCEPT !.handler = name, !.entered = name,
              !.timer = @ \/ arm, !.next = @ \/ setnext] :
     arm \in BOOLEAN, setnext \in BOOLEAN}

\* A task shutdown that posts no shutdown event.
ShutdownNotPosted(cl) ==
  cl

\* isc_task_shutdown(client->task): the shutdown event of the task is
\* posted.
isc_task_shutdown(cl) ==
  [cl EXCEPT !.shutdown = TRUE]

\* A test that lets every message pass.
FlagIgnored(req) ==
  TRUE

\* INSIST((client->message->flags & DNS_MESSAGEFLAG_QR) == 0)
QueryFlagClear(req) ==
  req.qr = 0

\* client_request: intake of a dispatch event or of a TCP message.  The
\* view that matches is attached to client->view; dns_view_attach onto a
\* view still held either fails its REQUIRE or replaces the view.
client_request(cl, ev, req) ==
  LET c0 == [Event(cl) EXCEPT
               !.nfinal = 0, !.sent = << >>, !.entered = "none",
               !.opcode = "none",
               !.accepted = (req.result = "SUCCESS")]
  IN IF ev = "dispatch" /\ ~c0.dispentry THEN {Fault(c0, "REQUIRE")}
     ELSE
       LET c1 == [c0 EXCEPT !.dispevent = IF ev = "dispatch" THEN TRUE ELSE @,
                            !.state = "working"]
       IN IF req.result # "SUCCESS"
          THEN IF c1.tcp
               THEN ns_client_next(Finalizing(c1), req.result)
               ELSE {isc_task_shutdown(c1)}
          ELSE IF req.parse # "SUCCESS"
          THEN ns_client_error(Finalizing(c1), req.parse)
          ELSE IF ~QueryFlagClear(req)
          THEN {Fault(c1, "INSIST")}
          ELSE
            LET view == FirstMatch(ViewList, req.rdclass)
                c2 == [c1 EXCEPT !.view = IF view = 0 THEN @ ELSE view,
                                 !.opcode = IF view = 0 THEN "none"
                                            ELSE req.opcode]
            IN IF view = 0
               THEN ns_client_error(Finalizing(c2), "REFUSED")
               ELSE (IF c1.view # 0 THEN {Fault(c1, "REQUIRE")} ELSE {}) \cup
                    CASE req.opcode = "query" -> StartHandler(c2, "query")
                      [] req.opcode = "update" -> StartHandler(c2, "update")
                      [] req.opcode = "notify" ->
                           ns_client_next(Finalizing(c2), "SUCCESS")
                      [] req.opcode = "iquery" ->
                           Bind(ns_client_error(Finalizing(c2), "REFUSED"),
                                LAMBDA x :
                                  ns_client_error(Finalizing(x), "NOTIMP"))
                      [] OTHER ->
                           ns_client_error(Finalizing(c2), "NOTIMP")

\* A timeout handler that frees the event and finalizes nothing.
TimeoutDropped(cl) ==
  {[Event(cl) EXCEPT !.timer = FALSE]}

\* client_timeout: the life or idle timer fired.
client_timeout(cl) ==
  ns_client_next([Event(cl) EXCEPT !.timer = FALSE], "TIMEDOUT")

\* client_senddone: a send completed.
client_senddone(cl) ==
  LET c0 == [Event(cl) EXCEPT !.inflight = @ - 1]
  IN IF c0.nsends <= 0 THEN {Fault(c0, "INSIST")}
     ELSE
       LET c1 == mempool_put([c0 EXCEPT !.nsends = @ - 1])
       IN IF c1.state = "waiting"
          THEN ns_client_send([c1 EXCEPT !.state = "working"])
          ELSE {c1}

\* client_newconn: an accept completed.
client_newconn(cl, ok) ==
  LET c0 == [Event(cl) EXCEPT !.accepts = @ - 1]
  IN IF ok
     THEN client_read([c0 EXCEPT !.tcpsocket = TRUE])
     ELSE {[c0 EXCEPT !.state = "idle"]}

\* A client_free that does not remove the request from the dispatcher.
FreeKeepsRequest(cl) ==
  [NoClient EXCEPT !.status = "freed",
                   !.tcp = cl.tcp,
                   !.view = cl.view,
                   !.need = cl.need,
                   !.accepts = cl.accepts,
                   !.inflight = cl.inflight,
                   !.reads = cl.reads,
                   !.dispentry = cl.dispentry,
                   !.dispevent = cl.dispevent]

\* client_free: release what the client holds and free it.  Neither the
\* accepts nor the sends still registered with the reactor are cancelled;
\* a read is cancelled only when a socket is attached and the state is
\* reading.  The view reference is not detached.
client_free(cl) ==
  [NoClient EXCEPT !.status = "freed",
                   !.tcp = cl.tcp,
                   !.view = cl.view,
                   !.need = cl.need,
                   !.accepts = cl.accepts,
                   !.inflight = cl.inflight,
                   !.reads = IF cl.tcpsocket /\ cl.state = "reading"
                             THEN 0 ELSE cl.reads]

\* A client that is created with a listener attached.
CreateWithListener ==
  [NoClient EXCEPT !.status = "live", !.state = "idle",
                   !.tcplistener = TRUE]

\* client_create: a new, idle client with an empty send pool and no timer
\* running.
client_create ==
  [NoClient EXCEPT !.status = "live", !.state = "idle"]

\* ------------------------------------------------------------------ manager
\* clientmgr_destroy: free the manager; it must have no clients left.
clientmgr_destroy(m) ==
  IF m.nclients # 0 \/ m.clients # << >>
  THEN [m EXCEPT !.fault = "REQUIRE"]
  ELSE [m EXCEPT !.freed = @ + 1]

\* A test that looks at exiting only.
ExitingOnly(nclients, exiting) ==
  exiting

\* client_destroy: if (manager->nclients == 0 && manager->exiting)
NeedDestroy(nclients, exiting) ==
  nclients = 0 /\ exiting

\* ISC_LIST_UNLINK(manager->clients, client, link)
Unlink(list, c) ==
  SelectSeq(list, LAMBDA x : x # c)

Range(list) ==
  {list[k] : k \in 1..Len(list)}

\* The slot the next isc_mem_get of a client returns; 0 when memory is out.
Fresh ==
  IF \E c \in Clients : clients[c].status = "unborn"
  THEN CHOOSE c \in Clients :
         /\ clients[c].status = "unborn"
         /\ \A d \in Clients : clients[d].status = "unborn" => c <= d
  ELSE 0

Manager0 ==
  [ exiting |-> FALSE, nclients |-> 0, clients |-> << >>,
    lock |-> "free", freed |-> 0, fault |-> "none" ]

Main0 ==
  [ pc |-> "idle", n |-> 0, i |-> 0, cur |-> 0,
    result |-> "SUCCESS", need |-> FALSE, fault |-> "none" ]

NoFault ==
  /\ main.fault = "none"
  /\ mgr.fault = "none"
  /\ \A c \in Clients : clients[c].fault = "none"

\* ns_clientmgr_create: no clients, not exiting.
Init ==
  /\ clients = [c \in 1..MaxClients |-> NoClient]
  /\ mgr = Manager0
  /\ main = Main0

InitMgr ==
  /\ clients = [c \in 1..MaxMgrClients |-> NoClient]
  /\ mgr = Manager0
  /\ main = Main0

\* The result of the last turn of the loop, whatever came before it.
LastResult(i, result) ==
  result

\* if (i != 0) result = ISC_R_SUCCESS
Victory(i, result) ==
  IF i # 0 THEN "SUCCESS" ELSE result

\* An ns_clientmgr_addtodispatch that starts without the manager lock.
AddWithoutLock(n) ==
  /\ NoFault
  /\ main.pc = "idle"
  /\ mgr.lock = "free"
  /\ main' = [main EXCEPT !.pc = "add", !.n = n, !.i = 0, !.cur = 0,
                          !.result = "SUCCESS"]
  /\ UNCHANGED << clients, mgr >>

\* ns_clientmgr_addtodispatch, LOCK(&manager->lock)
AddToDispatchLock(n) ==
  /\ NoFault
  /\ main.pc = "idle"
  /\ mgr.lock = "free"
  /\ mgr' = [mgr EXCEPT !.lock = "main"]
  /\ main' = [main EXCEPT !.pc = "add", !.n = n, !.i = 0, !.cur = 0,
                          !.result = "SUCCESS"]
  /\ UNCHANGED clients

\* ns_clientmgr_addtodispatch, one turn of the loop up to the registration
\* with the dispatcher.
AddToDispatchCreate(createok, addok) ==
  /\ NoFault
  /\ main.pc = "add"
  /\ IF Fresh = 0 \/ ~createok
     THEN /\ main' = [main EXCEPT !.pc = "add_end",
                                  !.result = Victory(main.i, "NOMEMORY")]
          /\ UNCHANGED clients
     ELSE LET cl == [client_create EXCEPT !.state = "listening",
                                          !.dispatch = TRUE]
          IN IF ~addok
             THEN /\ clients' = [clients EXCEPT ![Fresh] = client_free(cl)]
                  /\ main' = [main EXCEPT !.pc = "add_end",
                                          !.result = Victory(main.i, "FAILURE")]
             ELSE /\ clients' = [clients EXCEPT
                                   ![Fresh] = [cl EXCEPT !.dispentry = TRUE]]
                  /\ main' = [main EXCEPT !.pc = "add_link", !.cur = Fresh]
  /\ UNCHANGED mgr

\* A link that does not count the client.
LinkUncounted ==
  /\ mgr' = [mgr EXCEPT !.clients = Append(@, main.cur)]
  /\ clients' = [clients EXCEPT ![main.cur].linked = TRUE]

\* A link that also puts the client in its first state.
LinkAndListen ==
  /\ mgr' = [mgr EXCEPT !.nclients = @ + 1,
                        !.clients = Append(@, main.cur)]
  /\ clients' = [clients EXCEPT ![main.cur].linked = TRUE,
                                ![main.cur].state = "listening"]

\* manager->nclients++; ISC_LIST_APPEND(manager->clients, client, link)
LinkClient ==
  /\ mgr' = [mgr EXCEPT !.nclients = @ + 1,
                        !.clients = Append(@, main.cur)]
  /\ clients' = [clients EXCEPT ![main.cur].linked = TRUE]

\* ns_clientmgr_addtodispatch, the rest of the turn.
AddToDispatchLink ==
  /\ NoFault
  /\ main.pc = "add_link"
  /\ LinkClient
  /\ main' = [main EXCEPT !.i = @ + 1,
                          !.pc = IF main.i + 1 < main.n THEN "add"
                                 ELSE "add_end"]

\* The end of ns_clientmgr_addtodispatch and of ns_clientmgr_accepttcp:
\* UNLOCK and return the result.
CreateUnlock ==
  /\ NoFault
  /\ main.pc \in {"add_end", "tcp_end"}
  /\ mgr' = [mgr EXCEPT !.lock = "free"]
  /\ main' = [main EXCEPT !.pc = "idle", !.n = 0, !.cur = 0, !.i = 0,
                          !.result = "SUCCESS"]
  /\ UNCHANGED clients

\* ns_clientmgr_accepttcp, LOCK(&manager->lock)
AcceptTcpLock(n) ==
  /\ NoFault
  /\ main.pc = "idle"
  /\ mgr.lock = "free"
  /\ mgr' = [mgr EXCEPT !.lock = "main"]
  /\ main' = [main EXCEPT !.pc = "tcp", !.n = n, !.i = 0, !.cur = 0,
                          !.result = "SUCCESS"]
  /\ UNCHANGED clients

\* ns_clientmgr_accepttcp, one turn of the loop up to client_accept.
AcceptTcpCreate(createok) ==
  /\ NoFault
  /\ main.pc = "tcp"
  /\ IF Fresh = 0 \/ ~createok
     THEN /\ main' = [main EXCEPT !.pc = "tcp_end",
                                  !.result = Victory(main.i, "NOMEMORY")]
          /\ UNCHANGED clients
     ELSE LET cl == [client_create EXCEPT !.state = "listening",
                                          !.tcp = TRUE,
                                          !.tcplistener = TRUE]
          IN /\ \E x \in client_accept(cl) :
                  clients' = [clients EXCEPT ![Fresh] = x]
             /\ main' = [main EXCEPT !.pc = "tcp_link", !.cur = Fresh]
  /\ UNCHANGED mgr

\* ns_clientmgr_accepttcp, the rest of the turn.
AcceptTcpLink ==
  /\ NoFault
  /\ main.pc = "tcp_link"
  /\ LinkClient
  /\ main' = [main EXCEPT !.i = @ + 1,
                          !.pc = IF main.i + 1 < main.n THEN "tcp"
                                 ELSE "tcp_end"]

\* ns_clientmgr_destroy, from LOCK to the test of the list.
MgrDestroyLock ==
  /\ NoFault
  /\ main.pc = "idle"
  /\ mgr.lock = "free"
  /\ mgr' = [mgr EXCEPT !.lock = "main", !.exiting = TRUE]
  /\ clients' = [c \in Clients |->
                   IF c \in Range(mgr.clients)
                   THEN isc_task_shutdown(clients[c]) ELSE clients[c]]
  /\ main' = [main EXCEPT !.pc = "destroy_unlock",
                          !.need = (mgr.clients = << >>)]

\* ns_clientmgr_destroy, UNLOCK(&manager->lock)
MgrDestroyUnlock ==
  /\ NoFault
  /\ main.pc = "destroy_unlock"
  /\ mgr' = [mgr EXCEPT !.lock = "free"]
  /\ main' = [main EXCEPT !.pc = "destroy_end"]
  /\ UNCHANGED clients

\* ns_clientmgr_destroy, the rest: clientmgr_destroy when need_destroy.
MgrDestroyEnd ==
  /\ NoFault
  /\ main.pc = "destroy_end"
  /\ mgr' = IF main.need THEN clientmgr_destroy(mgr) ELSE mgr
  /\ main' = [main EXCEPT !.pc = "done"]
  /\ UNCHANGED clients

\* ------------------------------------------------------------------ events
Live(c) ==
  /\ clients[c].status = "live"
  /\ clients[c].pc = "run"

\* The dispatcher delivers a DNS_EVENT_DISPATCH to a client that is
\* registered with it and holds no event of it.
DispatchEvent(c, req) ==
  /\ NoFault
  /\ Live(c)
  /\ ~clients[c].tcp
  /\ clients[c].dispentry
  /\ ~clients[c].dispevent
  /\ \E x \in client_request(clients[c], "dispatch", req) :
       clients' = [clients EXCEPT ![c] = x]
  /\ UNCHANGED << mgr, main >>

\* A read completes: DNS_EVENT_TCPMSG.
TcpMessage(c, req) ==
  /\ NoFault
  /\ Live(c)
  /\ clients[c].tcp
  /\ clients[c].reads > 0
  /\ \E x \in client_request([clients[c] EXCEPT !.reads = @ - 1],
                              "tcpmsg", req) :
       clients' = [clients EXCEPT ![c] = x]
  /\ UNCHANGED << mgr, main >>

\* The ways a request handler finalizes its request.
Finals ==
  { [kind |-> "send", result |-> "SUCCESS"],
    [kind |-> "error", result |-> "SERVFAIL"],
    [kind |-> "next", result |-> "SUCCESS"],
    [kind |-> "next", result |-> "FAILURE"] }

\* A request handler finalizes: it stops the timer it armed and calls
\* exactly one of ns_client_send, ns_client_error, ns_client_next, from the
\* client's task.
HandlerFinalize(c, f) ==
  /\ NoFault
  /\ Live(c)
  /\ clients[c].handler # "none"
  /\ clients[c].state = "working"
  /\ LET c0 == [Event(clients[c]) EXCEPT !.handler = "none", !.timer = FALSE]
     IN \E x \in (CASE f.kind = "send"  -> ns_client_send(c0)
                    [] f.kind = "error" -> ns_client_error(c0, f.result)
                    [] OTHER            -> ns_client_next(c0, f.result)) :
          clients' = [clients EXCEPT ![c] = x]
  /\ UNCHANGED << mgr, main >>

\* ISC_TIMEREVENT_LIFE or ISC_TIMEREVENT_IDLE
Timeout(c) ==
  /\ NoFault
  /\ Live(c)
  /\ clients[c].timer
  /\ \E x \in client_timeout(clients[c]) :
       clients' = [clients EXCEPT ![c] = x]
  /\ UNCHANGED << mgr, main >>

\* ISC_SOCKEVENT_SENDDONE
SendDone(c) ==
  /\ NoFault
  /\ Live(c)
  /\ clients[c].inflight > 0
  /\ \E x \in client_senddone(clients[c]) :
       clients' = [clients EXCEPT ![c] = x]
  /\ UNCHANGED << mgr, main >>

\* ISC_SOCKEVENT_NEWCONN
NewConn(c, ok) ==
  /\ NoFault
  /\ Live(c)
  /\ clients[c].accepts > 0
  /\ \E x \in client_newconn(clients[c], ok) :
       clients' = [clients EXCEPT ![c] = x]
  /\ UNCHANGED << mgr, main >>

\* client_shutdown -> client_destroy, from LOCK to the test of nclients.
ShutdownLock(c) ==
  /\ NoFault
  /\ Live(c)
  /\ clients[c].shutdown
  /\ mgr.lock = "free"
  /\ IF mgr.freed > 0
     THEN /\ mgr' = [mgr EXCEPT !.fault = "UAF"]
          /\ UNCHANGED clients
     ELSE IF mgr.nclients <= 0
     THEN /\ clients' = [clients EXCEPT ![c] = Fault(@, "INSIST")]
          /\ UNCHANGED mgr
     ELSE /\ mgr' = [mgr EXCEPT !.lock = "client", !.nclients = @ - 1]
          /\ clients' = [clients EXCEPT
               ![c].pc = "unlink",
               ![c].need = NeedDestroy(mgr.nclients - 1, mgr.exiting)]
  /\ UNCHANGED main

\* client_destroy, ISC_LIST_UNLINK and UNLOCK, then client_free.
ShutdownUnlink(c) ==
  /\ NoFault
  /\ clients[c].status = "live"
  /\ clients[c].pc = "unlink"
  /\ mgr' = [mgr EXCEPT !.lock = "free", !.clients = Unlink(@, c)]
  /\ clients' = [clients EXCEPT ![c] =
       [client_free(@) EXCEPT !.pc = IF clients[c].need THEN "mgr" ELSE "run"]]
  /\ UNCHANGED main

\* client_destroy, clientmgr_destroy when need_clientmgr_destroy.
ShutdownMgrDestroy(c) ==
  /\ NoFault
  /\ clients[c].status = "freed"
  /\ clients[c].pc = "mgr"
  /\ mgr' = clientmgr_destroy(mgr)
  /\ clients' = [clients EXCEPT ![c].pc = "run"]
  /\ UNCHANGED main

\* The calls the owner of the manager makes.
MainNext ==
  \/ \E n \in 1..MaxN : AddToDispatchLock(n)
  \/ \E createok, addok \in BOOLEAN : AddToDispatchCreate(createok, addok)
  \/ AddToDispatchLink
  \/ \E n \in 1..MaxN : AcceptTcpLock(n)
  \/ \E createok \in BOOLEAN : AcceptTcpCreate(createok)
  \/ AcceptTcpLink
  \/ CreateUnlock
  \/ MgrDestroyLock
  \/ MgrDestroyUnlock
  \/ MgrDestroyEnd

\* The task shutdown event of a client.
ShutdownNext ==
  \/ \E c \in Clients : ShutdownLock(c)
  \/ \E c \in Clients : ShutdownUnlink(c)
  \/ \E c \in Clients : ShutdownMgrDestroy(c)

Next ==
  \/ MainNext
  \/ ShutdownNext
  \/ \E c \in Clients : \E req \in Requests : DispatchEvent(c, req)
  \/ \E c \in Clients : \E req \in Requests : TcpMessage(c, req)
  \/ \E c \in Clients : \E f \in Finals : HandlerFinalize(c, f)
  \/ \E c \in Clients : Timeout(c)
  \/ \E c \in Clients : SendDone(c)
  \/ \E c \in Clients : \E ok \in BOOLEAN : NewConn(c, ok)

Spec ==
  Init /\ [][Next]_vars

\* The manager and the lifecycle of its clients: of the events of a client
\* only those that end it, the dispatch event with a transport error and
\* the task shutdown.
TransportErrors ==
  {req \in Requests : req.result # "SUCCESS"}

NextMgr ==
  \/ MainNext
  \/ ShutdownNext
  \/ \E c \in Clients : \E req \in TransportErrors : DispatchEvent(c, req)

SpecMgr ==
  InitMgr /\ [][NextMgr]_vars

\* The scheduler runs every thread that can take a step: the owner of the
\* manager returns from the call it is in, and a posted task shutdown event
\* is delivered and its handler runs to its end.
Fairness ==
  /\ WF_vars(CreateUnlock \/ AddToDispatchLink \/ AcceptTcpLink)
  /\ WF_vars(\E createok, addok \in BOOLEAN : AddToDispatchCreate(createok, addok))
  /\ WF_vars(\E createok \in BOOLEAN : AcceptTcpCreate(createok))
  /\ WF_vars(MgrDestroyUnlock \/ MgrDestroyEnd)
  /\ \A c \in 1..MaxMgrClients :
       WF_vars(ShutdownLock(c) \/ ShutdownUnlink(c) \/ ShutdownMgrDestroy(c))

SpecMgrFair ==
  InitMgr /\ [][NextMgr]_vars /\ Fairness

\* The socket layer completes every send it accepted: a send completion
\* that is due is eventually delivered to the client's task; and a task
\* that has begun client_destroy runs it to its end.
SendFairness ==
  \A c \in 1..MaxClients :
    /\ WF_vars(SendDone(c))
    /\ WF_vars(ShutdownUnlink(c))

SpecSendFair ==
  Init /\ [][Next]_vars /\ SendFairness

\* The owner of the manager returns from the call it is in, so that the
\* manager lock is released; a posted task shutdown event is delivered, and
\* its handler, which waits for the manager lock in client_destroy, gets
\* the lock although the owner may take it again and again, and runs to
\* its end.
ShutdownFairness ==
  /\ WF_vars(CreateUnlock \/ AddToDispatchLink \/ AcceptTcpLink)
  /\ WF_vars(\E createok, addok \in BOOLEAN : AddToDispatchCreate(createok, addok))
  /\ WF_vars(\E createok \in BOOLEAN : AcceptTcpCreate(createok))
  /\ WF_vars(MgrDestroyUnlock \/ MgrDestroyEnd)
  /\ \A c \in 1..MaxClients :
       /\ SF_vars(ShutdownLock(c))
       /\ WF_vars(ShutdownUnlink(c) \/ ShutdownMgrDestroy(c))

SpecShutdownFair ==
  Init /\ [][Next]_vars /\ ShutdownFairness

\* ------------------------------------------------------------------ claims
LiveClients ==
  {c \in Clients : clients[c].status = "live"}

\* The requests and reads a client has registered with the reactor.
Outstanding(cl) ==
  cl.reads + cl.accepts + (IF cl.dispentry /\ ~cl.dispevent THEN 1 ELSE 0)

\* C1: for every request client_request accepts and finalizes itself,
\* exactly one of send(), error(), next() is the finalizing call: never
\* zero, never two.
C1_ExactlyOneFinalizingCall ==
  \A c \in LiveClients :
    (/\ clients[c].fault = "none"
     /\ clients[c].accepted
     /\ clients[c].entered = "none")
    => clients[c].nfinal = 1

\* C2: the opcode switch of client_request selects exactly one outcome:
\* QUERY and UPDATE enter their handler and nothing else, NOTIFY is one
\* next() and no response, IQUERY is one error(REFUSED), so at most one
\* response, with rcode REFUSED and never NOTIMP, any other opcode is one
\* error(NOTIMP).
C2_OpcodeDispatch ==
  \A c \in LiveClients :
    LET cl == clients[c]
        rcodes == {cl.sent[k] : k \in 1..Len(cl.sent)}
    IN cl.fault = "none" =>
       /\ cl.opcode \in {"query", "update"} =>
            cl.entered = cl.opcode /\ cl.nfinal = 0
       /\ cl.opcode = "notify" =>
            cl.entered = "none" /\ cl.nfinal = 1 /\ cl.sent = << >>
       /\ cl.opcode = "iquery" =>
            /\ cl.entered = "none" /\ cl.nfinal = 1
            /\ Len(cl.sent) <= 1 /\ rcodes \subseteq {"REFUSED"}
       /\ cl.opcode = "status" =>
            /\ cl.entered = "none" /\ cl.nfinal = 1
            /\ Len(cl.sent) <= 1 /\ rcodes \subseteq {"NOTIMP"}

\* C3, as stated: a Waiting client has sends outstanding and all 3 buffers
\* of its pool are checked out.
C3_WaitingPoolExhausted ==
  \A c \in LiveClients :
    clients[c].state = "waiting" =>
      clients[c].nsends > 0 /\ clients[c].allocated = MaxAlloc

\* C3, amended: a Waiting client has sends outstanding, each holding a
\* buffer of the pool; the pool need not be at its limit of 3, since the
\* pool also returns no buffer when memory is out.  A client that failed
\* an assertion is not looked at: the server has stopped.
C3_WaitingHasSends ==
  \A c \in LiveClients :
    (clients[c].state = "waiting" /\ clients[c].fault = "none") =>
      /\ clients[c].nsends > 0
      /\ clients[c].allocated = clients[c].nsends
      /\ clients[c].inflight = clients[c].nsends

C3_Witness ==
  \E c \in LiveClients :
    /\ clients[c].state = "waiting"
    /\ clients[c].fault = "none"
    /\ clients[c].nsends = 1

\* C4: a client never has more than 3 sends outstanding, and never more
\* than 3 buffers checked out of its pool.
C4_SendPoolBound ==
  \A c \in LiveClients :
    /\ clients[c].nsends \in 0..3
    /\ clients[c].allocated \in 0..3
    /\ clients[c].inflight \in 0..3

C4_Witness ==
  \E c \in LiveClients :
    /\ clients[c].nsends = 3
    /\ clients[c].allocated = 3
    /\ clients[c].state = "waiting"

\* C5: whenever the manager lock is not held, nclients equals the number
\* of clients linked in the manager's list, and the linked clients are the
\* live clients that are marked linked.
C5_CountMatchesList ==
  mgr.lock = "free" =>
    /\ mgr.nclients = Len(mgr.clients)
    /\ Cardinality(Range(mgr.clients)) = Len(mgr.clients)
    /\ Range(mgr.clients) = {c \in LiveClients : clients[c].linked}

\* The lock is free and a client is linked; a client created before it and
\* a client created after it are gone, destroyed or freed when their
\* creation failed part-way.
C5_Witness ==
  /\ mgr.lock = "free"
  /\ main.pc = "idle"
  /\ mgr.nclients = 1
  /\ \E c \in Clients : clients[c].status = "freed" /\ c < mgr.clients[1]
  /\ \E c \in Clients : clients[c].status = "freed" /\ c > mgr.clients[1]

\* The callers of clientmgr_destroy: ns_clientmgr_destroy when it found the
\* list empty, a client when it found itself the last one of an exiting
\* manager.
Destroyers ==
  {c \in Clients : clients[c].need} \cup (IF main.need THEN {0} ELSE {})

\* C6: the manager is freed only with nclients = 0, an empty list and
\* exiting set, at most once, and at most one of ns_clientmgr_destroy and
\* the clients calls clientmgr_destroy.
C6_ManagerFreedOnce ==
  /\ mgr.fault = "none"
  /\ mgr.freed <= 1
  /\ Cardinality(Destroyers) <= 1
  /\ mgr.freed = 1 =>
       /\ mgr.nclients = 0
       /\ mgr.clients = << >>
       /\ mgr.exiting
       /\ Cardinality(Destroyers) = 1
  /\ Destroyers # {} => mgr.exiting /\ mgr.nclients = 0

\* The manager was freed by a client, after another client was destroyed.
C6_Witness ==
  /\ mgr.freed = 1
  /\ ~main.need
  /\ main.pc = "done"
  /\ Cardinality({c \in Clients : clients[c].status = "freed"}) >= 2

\* C7: once ns_clientmgr_destroy has run, every client is eventually
\* destroyed and the manager is eventually freed; it is freed by
\* ns_clientmgr_destroy itself exactly when the list was empty, and
\* otherwise by a client, when no client is left.
C7_EventuallyDestroyed ==
  /\ (mgr.exiting ~> (mgr.freed = 1 /\ LiveClients = {}))
  /\ [](main.pc = "done" /\ main.need => mgr.freed = 1)
  /\ [](mgr.freed = 1 /\ ~main.need =>
          /\ LiveClients = {}
          /\ \E c \in Clients : clients[c].need /\ clients[c].status = "freed")

\* ns_clientmgr_destroy returned with two clients live and the list not
\* empty.
C7_Witness ==
  /\ main.pc = "done"
  /\ ~main.need
  /\ mgr.freed = 0
  /\ Cardinality(LiveClients) >= 2

\* C8: a TCP client that is Reading or Working has a connected socket.
C8_TcpSocketAttached ==
  \A c \in LiveClients :
    (/\ clients[c].fault = "none"
     /\ clients[c].tcp
     /\ clients[c].state \in {"reading", "working"})
    => clients[c].tcpsocket

\* C9: a client that is Listening or Reading has exactly one read, accept
\* or dispatch request registered with the reactor.
C9_OneOutstanding ==
  \A c \in LiveClients :
    (/\ clients[c].fault = "none"
     /\ clients[c].state \in {"listening", "reading"})
    => Outstanding(clients[c]) = 1

\* C10: a client holds a view only while its request is not finalized, in
\* state Working with its handler still to finalize or in state Waiting,
\* and every ns_client_next leaves the view empty.
C10_ViewOnlyDuringRequest ==
  \A c \in LiveClients :
    /\ clients[c].view # 0 =>
         \/ clients[c].state = "working" /\ clients[c].handler # "none"
         \/ clients[c].state = "waiting" /\ clients[c].handler = "none"
    /\ clients[c].nnext > 0 => clients[c].view = 0

\* A request whose view was attached has been finalized by ns_client_next.
C10_Witness ==
  \E c \in LiveClients :
    /\ clients[c].entered # "none"
    /\ clients[c].nnext > 0
    /\ clients[c].view = 0
    /\ clients[c].fault = "none"

\* C11: a client enters Waiting only from Working, with sends outstanding
\* and without finalizing; it leaves Waiting only in a step that finalizes
\* its request, or by being destroyed; and when send completions are
\* delivered a Waiting client eventually leaves Waiting.
C11_WaitingEventuallyFinalized ==
  /\ [][\A c \in Clients :
          /\ (clients[c].state # "waiting" /\ clients'[c].state = "waiting")
               => /\ clients'[c].fault = "none"
                  /\ clients'[c].nsends > 0
                  /\ clients'[c].nnext = 0
                  /\ clients'[c].dispevent = ~clients'[c].tcp
          /\ (/\ clients[c].status = "live"
              /\ clients[c].state = "waiting"
              /\ clients'[c].status = "live"
              /\ clients'[c].state # "waiting")
               => clients'[c].nnext > 0 /\ clients'[c].fault = "none"]_vars
  /\ \A c \in 1..MaxClients :
       (clients[c].status = "live" /\ clients[c].state = "waiting")
         ~> ~(clients[c].status = "live" /\ clients[c].state = "waiting")

\* C12: a UDP client holds the dispatch event of its request exactly while
\* the request is not finalized: it holds one in Working and Waiting and
\* none in Listening; a ns_client_next leaves it Listening with the event
\* returned; a destroyed client holds neither event nor dispatch entry.
C12_DispatchEventReturned ==
  \A c \in Clients :
    LET cl == clients[c]
    IN /\ (cl.status = "live" /\ ~cl.tcp /\ cl.fault = "none") =>
            /\ cl.state = "listening" => ~cl.dispevent
            /\ cl.state \in {"working", "waiting"} => cl.dispevent
            /\ cl.nnext > 0 => cl.state = "listening" /\ ~cl.dispevent
            /\ cl.dispevent => cl.dispentry
       /\ cl.status = "freed" => ~cl.dispevent /\ ~cl.dispentry

\* A UDP client answered a request and is Listening again.
C12_Witness ==
  \E c \in LiveClients :
    /\ ~clients[c].tcp
    /\ clients[c].fault = "none"
    /\ clients[c].accepted
    /\ clients[c].nnext = 1
    /\ clients[c].sent # << >>
    /\ clients[c].state = "listening"

\* C13: on a TCP connection the requests are taken one at a time, in the
\* order they arrive: a read is armed only when no request is in progress,
\* so every response is scheduled before the next message is read; and
\* after a request that was finalized with success (a response was
\* scheduled, or a NOTIFY was taken) the client is Reading with a read
\* armed on the same connection.
C13_PipelinedInOrder ==
  \A c \in LiveClients :
    LET cl == clients[c]
    IN cl.tcp =>
         /\ cl.reads > 0 =>
              /\ cl.state = "reading"
              /\ cl.handler = "none"
              /\ cl.tcpsocket
         /\ (/\ cl.fault = "none"
             /\ cl.accepted
             /\ cl.nnext > 0
             /\ (cl.sent # << >> \/ cl.opcode = "notify")) =>
              /\ cl.state = "reading"
              /\ cl.reads = 1
              /\ cl.tcpsocket

\* C14, as stated: after ns_client_next with a failure result a TCP client
\* has no connected socket and exactly one accept registered.
C14_OneAcceptRearmed ==
  \A c \in LiveClients :
    (/\ clients[c].tcp
     /\ clients[c].fault = "none"
     /\ clients[c].nnext > 0
     /\ ~clients[c].tcpsocket)
    => clients[c].accepts = 1

\* C14, amended: ns_client_next with a failure result, called for a TCP
\* client in any reachable state that allows the call, detaches the socket
\* and calls client_accept once: one more accept is registered, or, when
\* the socket layer refuses it, none is and the client goes Idle.  It
\* returns no dispatch event, detaches the view and starts no read.
C14_FailureDropsConnection ==
  \A c \in LiveClients :
    LET cl == clients[c]
    IN (/\ cl.tcp
        /\ cl.fault = "none"
        /\ cl.state \in {"listening", "working"}) =>
         \A x \in ns_client_next(cl, "FAILURE") :
           /\ x.fault = "none"
           /\ ~x.tcpsocket
           /\ x.view = 0
           /\ x.reads = cl.reads
           /\ \/ x.accepts = cl.accepts + 1
              \/ x.accepts = cl.accepts /\ x.state = "idle"

\* A TCP client whose request met a transport error has dropped its
\* connection and waits for the next one.
C14_Witness ==
  \E c \in LiveClients :
    /\ clients[c].tcp
    /\ clients[c].fault = "none"
    /\ ~clients[c].accepted
    /\ clients[c].nnext = 1
    /\ ~clients[c].tcpsocket
    /\ clients[c].accepts = 1
    /\ clients[c].state = "working"

\* C15: the next-callback is one-shot.  An event of the client's task (a
\* step that changes the client and neither the manager nor its caller)
\* that calls ns_client_next
\* with the callback set invokes it exactly once, however many times
\* ns_client_next runs in that event, and leaves it cleared; an event that
\* starts with no callback set invokes none; and an event that calls no
\* ns_client_next invokes none and clears none.
C15_NextCallbackOneShot ==
  [][\A c \in Clients :
       (/\ clients[c].status = "live"
        /\ clients'[c].status = "live"
        /\ clients'[c].fault = "none"
        /\ clients'[c] # clients[c]
        /\ UNCHANGED << mgr, main >>) =>
         /\ clients'[c].nnext > 0 =>
              /\ ~clients'[c].next
              /\ clients'[c].ncb = (IF clients[c].next THEN 1 ELSE 0)
         /\ clients'[c].nnext = 0 =>
              /\ clients'[c].ncb = 0
              /\ clients[c].next => clients'[c].next]_vars

\* The callback was invoked once in an event in which ns_client_next ran
\* twice, the second time from client_read.
C15_Witness ==
  \E c \in LiveClients :
    /\ clients[c].fault = "none"
    /\ clients[c].nnext = 2
    /\ clients[c].ncb = 1
    /\ ~clients[c].next

\* The outcomes of client_request for a request, in a state of the client
\* in which the reactor can deliver one.
RequestOutcomes(cl, req) ==
  IF cl.tcp
  THEN IF cl.reads > 0
       THEN client_request([cl EXCEPT !.reads = @ - 1], "tcpmsg", req)
       ELSE {}
  ELSE IF cl.dispentry /\ ~cl.dispevent
       THEN client_request(cl, "dispatch", req)
       ELSE {}

\* C16: a message that arrives and parses with QR = 1 fails the INSIST of
\* client_request, whatever state the client is in: no view is matched, no
\* opcode is looked at, no handler is entered and nothing is finalized.
C16_ReplyRejected ==
  \A c \in LiveClients :
    \A req \in Requests :
      (req.result = "SUCCESS" /\ req.parse = "SUCCESS" /\ req.qr = 1) =>
        \A x \in RequestOutcomes(clients[c], req) :
          /\ x.fault = "INSIST"
          /\ x.state = "working"
          /\ x.view = clients[c].view
          /\ x.handler = clients[c].handler
          /\ x.opcode = "none"
          /\ x.entered = "none"
          /\ x.nfinal = 0
          /\ x.nnext = 0
          /\ x.sent = << >>

\* A request was taken from the transport and stopped at the INSIST.
C16_Witness ==
  \E c \in LiveClients :
    /\ clients[c].fault = "INSIST"
    /\ clients[c].accepted
    /\ clients[c].state = "working"
    /\ clients[c].opcode = "none"
    /\ clients[c].nfinal = 0
    /\ clients[c].nnext = 0
    /\ clients[c].view = 0

\* View lists of up to 3 views, each view's id its place in the list.
ViewLists ==
  UNION {[1..n -> {"IN", "CH", "HS"}] : n \in 0..3}

Numbered(classes) ==
  [k \in DOMAIN classes |-> [id |-> k, rdclass |-> classes[k]]]

\* C17: the walk over a view list yields the first view in list order
\* whose rdclass is the message's, and no view when none matches; and
\* client_request attaches exactly the view the walk yields: with a match
\* it goes on to the opcode switch, without one it attaches no view, looks
\* at no opcode, enters no handler and makes the one call error(REFUSED),
\* whose response, if one is scheduled, has rcode REFUSED.
C17_FirstMatchingView ==
  /\ \A classes \in ViewLists :
       \A rdclass \in {"IN", "CH", "HS"} :
         LET hits == {k \in DOMAIN classes : classes[k] = rdclass}
             v == FirstMatch(Numbered(classes), rdclass)
         IN IF hits = {} THEN v = 0
            ELSE v \in hits /\ \A k \in hits : v <= k
  /\ \A c \in LiveClients :
       \A req \in Requests :
         (req.result = "SUCCESS" /\ req.parse = "SUCCESS" /\ req.qr = 0) =>
           \A x \in RequestOutcomes(clients[c], req) :
             LET v == FirstMatch(ViewList, req.rdclass)
             IN IF v # 0
                THEN /\ x.opcode = req.opcode \/ x.fault = "REQUIRE"
                     /\ x.view \in {v, 0, clients[c].view}
                     /\ x.entered # "none" => x.view = v
                ELSE /\ x.view \in {clients[c].view, 0}
                     /\ x.opcode = "none"
                     /\ x.entered = "none"
                     /\ x.nfinal = 1
                     /\ \A k \in 1..Len(x.sent) : x.sent[k] = "REFUSED"
                     /\ Len(x.sent) <= 1

\* A request of a class no view serves was answered with REFUSED.
C17_Witness ==
  \E c \in LiveClients :
    /\ clients[c].fault = "none"
    /\ clients[c].accepted
    /\ clients[c].opcode = "none"
    /\ clients[c].nfinal = 1
    /\ clients[c].sent = << "REFUSED" >>
    /\ clients[c].view = 0

\* An event can be delivered to the client: it is registered with the
\* dispatcher, or an accept, a read, a send, its timer or its shutdown is
\* pending.
Armed(cl) ==
  \/ cl.dispentry
  \/ cl.accepts > 0
  \/ cl.reads > 0
  \/ cl.inflight > 0
  \/ cl.timer
  \/ cl.shutdown

\* C18: once an event can be delivered to a client, only the events of its
\* own task change it.  A step of the thread that runs
\* ns_clientmgr_addtodispatch, ns_clientmgr_accepttcp or
\* ns_clientmgr_destroy changes nothing of an armed client but its place in
\* the manager's list, under the manager lock, and the posting of its
\* shutdown event; and while a client is inside client_destroy no other
\* event of it runs.
C18_OnlyOwnTaskMutates ==
  [][\A c \in Clients :
       /\ (/\ main' # main
           /\ clients[c].status = "live"
           /\ Armed(clients[c])) =>
            /\ clients'[c] = [clients[c] EXCEPT
                                !.linked = clients'[c].linked,
                                !.shutdown = clients'[c].shutdown]
            /\ clients'[c].linked # clients[c].linked => mgr.lock = "main"
       /\ (/\ clients[c].status = "live"
           /\ clients[c].pc # "run"
           /\ clients'[c] # clients[c]) =>
            /\ clients'[c].status = "freed"
            /\ main' = main]_vars

\* A client took a request while the thread that created it is still
\* inside ns_clientmgr_accepttcp or ns_clientmgr_addtodispatch, about to
\* link it.
C18_Witness ==
  /\ main.pc \in {"add_link", "tcp_link"}
  /\ clients[main.cur].status = "live"
  /\ clients[main.cur].state = "working"
  /\ clients[main.cur].fault = "none"

\* The client is inside a request: client_request took one and it has not
\* been finalized.
InRequest(cl) ==
  \/ cl.state \in {"working", "waiting"}
  \/ cl.handler # "none"

\* A request event can be delivered to the client: the dispatcher holds a
\* registration of it whose event was returned, or a read is pending.
RequestDeliverable(cl) ==
  /\ cl.status = "live"
  /\ cl.pc = "run"
  /\ \/ ~cl.tcp /\ cl.dispentry /\ ~cl.dispevent
     \/ cl.tcp /\ cl.reads > 0

\* C19: a client handles one request at a time.  While a request it took
\* has not been finalized (state working or waiting, or its handler still
\* at work) no request event can be delivered to it: neither a dispatch
\* event nor the completion of a TCP read.
C19_OneRequestAtATime ==
  NoFault =>
    \A c \in Clients :
      InRequest(clients[c]) => ~RequestDeliverable(clients[c])

\* The thread that owns the manager is inside ns_clientmgr_addtodispatch or
\* ns_clientmgr_accepttcp.
Creating ==
  main.pc \in {"add", "add_link", "add_end", "tcp", "tcp_link", "tcp_end"}

ReadyForNext(cl) ==
  IF cl.tcp
  THEN cl.reads > 0 \/ cl.accepts > 0
  ELSE cl.state = "listening" /\ cl.dispentry /\ ~cl.dispevent

C22_UdpHasNoTcpEndpoint ==
  /\ [](\A c \in LiveClients :
          ~clients[c].tcp =>
            /\ ~clients[c].tcpsocket
            /\ ~clients[c].tcplistener
            /\ clients[c].accepts = 0
            /\ clients[c].reads = 0)
  /\ [][\A c \in Clients :
          (clients[c].status = "live" /\ clients'[c].status = "live") =>
            clients'[c].tcp = clients[c].tcp]_vars

\* A UDP client answered a request and is listening again.
C22_Witness ==
  \E c \in LiveClients :
    /\ ~clients[c].tcp
    /\ clients[c].fault = "none"
    /\ clients[c].state = "listening"
    /\ clients[c].nnext = 1
    /\ Len(clients[c].sent) = 1
    /\ ~clients[c].tcpsocket
    /\ ~clients[c].tcplistener

\* The client as client_request has it once it took the event: state
\* working, the dispatch event held.
Taken(cl, req) ==
  [Event(cl) EXCEPT
     !.nfinal = 0, !.sent = << >>, !.entered = "none", !.opcode = "none",
     !.accepted = TRUE,
     !.reads = IF cl.tcp THEN @ - 1 ELSE @,
     !.dispevent = IF cl.tcp THEN @ ELSE TRUE,
     !.state = "working"]

\* The calls of ns_client_error that an event which can be delivered in
\* this state makes, each with the client as it is at the call and the
\* result passed: a handler that finalizes with an error, and
\* client_request on a parse failure, on no matching view, on an opcode
\* it does not implement, and twice for IQUERY.
ErrorCalls(cl) ==
  LET call(x, result) == [cl |-> x, result |-> result]
      finalize ==
        IF cl.handler # "none" /\ cl.state = "working"
        THEN {call([Event(cl) EXCEPT !.handler = "none", !.timer = FALSE],
                   "SERVFAIL")}
        ELSE {}
      answered(req) ==
        LET c1 == Taken(cl, req)
            view == FirstMatch(ViewList, req.rdclass)
            c2 == [c1 EXCEPT !.view = IF view = 0 THEN @ ELSE view,
                             !.opcode = IF view = 0 THEN "none"
                                        ELSE req.opcode]
        IN IF req.result # "SUCCESS" \/ ~QueryFlagClear(req) THEN {}
           ELSE IF req.parse # "SUCCESS"
           THEN {call(Finalizing(c1), req.parse)}
           ELSE IF view = 0
           THEN {call(Finalizing(c2), "REFUSED")}
           ELSE IF req.opcode = "iquery"
           THEN {call(Finalizing(c2), "REFUSED")} \cup
                {call(Finalizing(x), "NOTIMP") :
                   x \in {y \in ns_client_error(Finalizing(c2), "REFUSED") :
                            y.fault = "none"}}
           ELSE IF req.opcode \in {"query", "update", "notify"}
           THEN {}
           ELSE {call(Finalizing(c2), "NOTIMP")}
      intake ==
        IF (cl.tcp /\ cl.reads > 0) \/
           (~cl.tcp /\ cl.dispentry /\ ~cl.dispevent)
        THEN UNION {answered(req) : req \in Requests}
        ELSE {}
  IN finalize \cup intake

\* The clients on which an event that can be delivered in this state calls
\* ns_client_send: a handler that finalizes with ns_client_send,
\* client_senddone restarting a waiting client, and every ns_client_error
\* that gets its reply.
SendCalls(cl) ==
  LET finalize ==
        IF cl.handler # "none" /\ cl.state = "working"
        THEN {[Event(cl) EXCEPT !.handler = "none", !.timer = FALSE]}
        ELSE {}
      restart ==
        IF cl.inflight > 0 /\ cl.nsends > 0 /\ cl.state = "waiting"
        THEN {[mempool_put([Event(cl) EXCEPT !.inflight = @ - 1,
                                             !.nsends = @ - 1])
                 EXCEPT !.state = "working"]}
        ELSE {}
      replies ==
        {[e.cl EXCEPT !.rcode = dns_result_torcode(e.result)] :
           e \in ErrorCalls(cl)}
  IN finalize \cup restart \cup replies

\* C23: every call of ns_client_send either puts the client in waiting,
\* with sends outstanding, no buffer taken and no ns_client_next, or calls
\* ns_client_next once at its end; a buffer stays checked out exactly when
\* the send was scheduled.  When ns_client_next, for a TCP client whose
\* send was scheduled, cannot start the next read, client_read calls
\* ns_client_next once more on its own.
C23_SendWaitsOrFinalizesOnce ==
  \A c \in LiveClients :
    (clients[c].fault = "none" /\ clients[c].pc = "run") =>
      \A s \in SendCalls(clients[c]) :
        \A x \in ns_client_send(s) :
          \/ /\ x = [s EXCEPT !.state = "waiting"]
             /\ s.nsends > 0
             /\ s.state = "working"
          \/ /\ x.fault = "none"
             /\ x.state # "waiting"
             /\ x.handler = "none"
             /\ \/ /\ x.sent = s.sent
                   /\ x.nsends = s.nsends
                   /\ x.allocated = s.allocated
                   /\ x.nnext = s.nnext + 1
                \/ /\ x.sent = Append(s.sent, s.rcode)
                   /\ x.nsends = s.nsends + 1
                   /\ x.allocated = s.allocated + 1
                   /\ \/ x.nnext = s.nnext + 1
                      \/ /\ x.nnext = s.nnext + 2
                         /\ s.tcp
                         /\ x.state = "reading"
                         /\ x.reads = s.reads

\* The rcode an error response carries for each result that reaches
\* ns_client_error.
ErrorRcode(result) ==
  CASE result = "REFUSED"       -> "REFUSED"
    [] result = "NOTIMP"        -> "NOTIMP"
    [] result = "FORMERR"       -> "FORMERR"
    [] result = "UNEXPECTEDEND" -> "FORMERR"
    [] result = "SERVFAIL"      -> "SERVFAIL"

C25_ErrorIntake ==
  \A c \in 1..MaxClients :
    (clients[c].status = "live" /\ clients[c].fault = "none") =>
      \A req \in TransportErrors :
        \A x \in RequestOutcomes(clients[c], req) :
          /\ x.fault = "none"
          /\ x.opcode = "none"
          /\ x.entered = "none"
          /\ x.sent = << >>
          /\ x.nsends = clients[c].nsends
          /\ x.view \in {0, clients[c].view}
          /\ IF x.tcp
             THEN /\ x.nfinal = 1
                  /\ x.nnext >= 1
                  /\ x.shutdown = clients[c].shutdown
                  /\ ~x.tcpsocket
                  /\ x.handler = "none"
             ELSE /\ x.nfinal = 0
                  /\ x.nnext = 0
                  /\ x.shutdown
                  /\ x.state = "working"
                  /\ x.dispevent
                  /\ x.view = clients[c].view
                  /\ x.handler = clients[c].handler

\* A UDP client that met a transport error: its shutdown is posted and it
\* holds the event.
C25_UdpShutDown(c) ==
  /\ clients[c].status = "live"
  /\ ~clients[c].tcp
  /\ ~clients[c].accepted
  /\ clients[c].shutdown
  /\ clients[c].dispevent

\* C25: a request event with a transport error is neither parsed nor
\* matched to a view nor handed to a handler, and nothing is sent for it.
\* A TCP client finalizes it with ns_client_next.  A UDP client posts the
\* shutdown of its own task and calls no ns_client_next; it takes no
\* further request, it is then destroyed, and client_free leaves it with
\* neither the dispatch event nor the dispatch entry, unless the server
\* stops first on a failed assertion of another client.
C25_TransportError ==
  /\ []C25_ErrorIntake
  /\ [](\A c \in 1..MaxClients :
          C25_UdpShutDown(c) => ~RequestDeliverable(clients[c]))
  /\ \A c \in 1..MaxClients :
       C25_UdpShutDown(c) ~>
         \/ /\ clients[c].status = "freed"
            /\ ~clients[c].dispevent
            /\ ~clients[c].dispentry
            /\ ~clients[c].dispatch
         \/ ~NoFault

\* A UDP client that met a transport error is inside client_destroy, the
\* dispatch event still held, and the manager is not exiting.
C25_Witness ==
  \E c \in 1..MaxClients :
    /\ C25_UdpShutDown(c)
    /\ clients[c].state = "working"
    /\ clients[c].nnext = 0
    /\ clients[c].pc = "unlink"
    /\ ~mgr.exiting
    /\ NoFault

\* The requests that arrive and do not parse.
ParseFailures ==
  {req \in Requests : req.result = "SUCCESS" /\ req.parse # "SUCCESS"}

\* C26: when dns_message_parse fails, client_request calls ns_client_error
\* with the parse result and returns: one finalizing call, no view
\* attached, no opcode looked at, no handler entered, and at most one
\* response, which carries FORMERR.  Unless ns_client_send or
\* ns_client_next stops on a failed assertion, the request is finalized
\* with the view empty, or waits for a buffer with FORMERR in the message.
C26_ParseFailure ==
  \A c \in LiveClients :
    (clients[c].fault = "none" /\ clients[c].pc = "run") =>
      \A req \in ParseFailures :
        \A x \in RequestOutcomes(clients[c], req) :
          /\ x.nfinal = 1
          /\ x.opcode = "none"
          /\ x.entered = "none"
          /\ x.handler = clients[c].handler \/ x.handler = "none"
          /\ x.view \in {0, clients[c].view}
          /\ x.sent \in { << >>, << "FORMERR" >> }
          /\ \/ x.fault # "none"
             \/ x.state = "waiting" /\ x.rcode = "FORMERR" /\ x.nnext = 0
             \/ x.state # "waiting" /\ x.nnext >= 1 /\ x.view = 0

\* A message read from a TCP connection did not parse; it was answered
\* with one FORMERR and the next read is started.
C26_Witness ==
  \E c \in LiveClients :
    /\ clients[c].tcp
    /\ clients[c].fault = "none"
    /\ clients[c].accepted
    /\ clients[c].opcode = "none"
    /\ clients[c].nfinal = 1
    /\ clients[c].nnext = 1
    /\ clients[c].sent = << "FORMERR" >>
    /\ clients[c].state = "reading"
    /\ clients[c].reads = 1
    /\ clients[c].view = 0

\* C27: client_destroy never runs for a half-constructed client.  Whenever
\* the shutdown handler of a client can pass the LOCK of client_destroy,
\* and while it is between LOCK and UNLOCK, the client is counted and
\* linked: nclients > 0, the client is in the list, once, and the manager
\* has not been freed.  While the creating call has not linked the client
\* it holds the lock.
C27_DestroyOnlyLinked ==
  \A c \in LiveClients :
    /\ ((clients[c].shutdown /\ mgr.lock = "free") \/
        clients[c].pc = "unlink") =>
         /\ clients[c].linked
         /\ Cardinality({k \in 1..Len(mgr.clients) : mgr.clients[k] = c}) = 1
         /\ mgr.nclients > (IF clients[c].pc = "unlink" THEN -1 ELSE 0)
         /\ mgr.nclients + (IF clients[c].pc = "unlink" THEN 1 ELSE 0)
              = Len(mgr.clients)
         /\ mgr.freed = 0
    /\ (~clients[c].linked /\ clients[c].fault = "none") =>
         /\ mgr.lock = "main"
         /\ main.pc \in {"add_link", "tcp_link"}
         /\ main.cur = c

\* The race: a client that is registered with the dispatcher and not yet
\* linked has its task shutdown posted, while its creator holds the lock.
C27_Witness ==
  /\ main.pc = "add_link"
  /\ mgr.lock = "main"
  /\ clients[main.cur].status = "live"
  /\ clients[main.cur].shutdown
  /\ ~clients[main.cur].linked
  /\ NoFault

\* REQUIRE(client->state == ns_clientstate_listening ||
\*         client->state == ns_clientstate_working)
NextAllowed(cl) ==
  cl.state \in {"listening", "working"}

\* C28: every call of ns_client_next that the core can make in a reachable
\* state meets the REQUIRE on the state: the call of client_timeout when
\* the timer can fire, the call of client_read when a connection arrives
\* and the read cannot be started, the calls of ns_client_send and
\* ns_client_error, and the calls of client_request itself.
C28_NextPrecondition ==
  \A c \in LiveClients :
    LET cl == clients[c]
    IN (cl.fault = "none" /\ cl.pc = "run") =>
         /\ cl.timer => NextAllowed(cl)
         /\ cl.accepts > 0 => NextAllowed(cl)
         /\ \A s \in SendCalls(cl) : NextAllowed(s)
         /\ \A e \in ErrorCalls(cl) : NextAllowed(e.cl)
         /\ \A req \in Requests :
              RequestOutcomes(cl, req) # {} => NextAllowed(Taken(cl, req))

\* C29: no event is due to a client that has been freed: client_free
\* leaves no send whose completion is still to come, no accept and no read
\* registered for the client's task, no timer armed and no registration
\* with the dispatcher.
C29_NoEventAfterDestroy ==
  \A c \in Clients :
    clients[c].status = "freed" =>
      /\ clients[c].inflight = 0
      /\ clients[c].accepts = 0
      /\ clients[c].reads = 0
      /\ ~clients[c].timer
      /\ ~clients[c].dispentry

\* C30: a client holds no view reference when it is freed, and none while
\* it is inside client_destroy on its way to client_free.
C30_NoViewWhenFreed ==
  \A c \in Clients :
    (clients[c].status = "freed" \/ clients[c].pc = "unlink") =>
      clients[c].view = 0

\* C31: between events nsends is the number of buffers checked out of the
\* client's pool, and the number of send completions still to come.  Every
\* call of ns_client_send that ends without a failed assertion raises
\* nsends by one exactly when it scheduled the send, and then keeps the
\* buffer; otherwise nsends and the pool are as before.  client_senddone
\* lowers nsends by one and returns one buffer, before it restarts a
\* waiting client.
C31_SendsMatchBuffers ==
  \A c \in LiveClients :
    LET cl == clients[c]
    IN (cl.fault = "none" /\ cl.pc = "run") =>
         /\ cl.nsends = cl.allocated
         /\ cl.nsends = cl.inflight
         /\ cl.nsends \in 0..MaxAlloc
         /\ \A s \in SendCalls(cl) :
              \A x \in ns_client_send(s) :
                x.fault = "none" =>
                  /\ x.nsends - s.nsends = x.allocated - s.allocated
                  /\ x.nsends - s.nsends = Len(x.sent) - Len(s.sent)
                  /\ x.nsends - s.nsends \in {0, 1}
         /\ (cl.inflight > 0 /\ cl.state # "waiting") =>
              \A x \in client_senddone(cl) :
                /\ x.fault = "none"
                /\ x.nsends = cl.nsends - 1
                /\ x.allocated = cl.allocated - 1
                /\ x.inflight = cl.inflight - 1

\* A response was scheduled and its send completed: the buffer is back in
\* the pool and no send is outstanding.
C31_Witness ==
  \E c \in LiveClients :
    /\ clients[c].fault = "none"
    /\ Len(clients[c].sent) = 1
    /\ clients[c].nnext = 0
    /\ clients[c].nsends = 0
    /\ clients[c].allocated = 0
    /\ clients[c].inflight = 0

=============================================================================
